---- MODULE Spec2Model ----
(***************************************************************************)
(* Cross-tab synchronisation of SolidJS signals and stores.                *)
(*                                                                         *)
(* createSyncStore  (src/src/SyncStore.ts)  : the structured flavor        *)
(* createSyncSignal (src/vite.config.ts:81ff): the scalar flavor           *)
(* registry + utilities (src/src/index.ts)                                 *)
(*                                                                         *)
(* The host is modelled as the browser provides it: one localStorage per   *)
(* origin shared by all tabs, "storage" events queued to every OTHER tab   *)
(* when a write changes an entry, BroadcastChannel messages queued to      *)
(* every other open channel object of the same name, timers that fire at   *)
(* some later point, and one wall clock (Date.now) that never runs back.   *)
(* Every handler runs to completion: one action per handler.               *)
(***************************************************************************)
EXTENDS Integers, Sequences, FiniteSets, TLC

VARIABLES
    now,               \* Date.now()
    bc,                \* "BroadcastChannel" in window
    unit,              \* the closure state of every unit ever constructed
    storage,           \* localStorage of the origin
    inbox,             \* message events queued to each unit's channel object
    evq,               \* storage events queued to each tab's window
    syncFunctions,     \* per tab: Map key -> sync
    cleanupFunctions,  \* per tab: Map key -> cleanup
    last,              \* history: the handler that ran last and what it saw
    codec              \* one value on its way through serialize / deserialize

vars == <<now, bc, unit, storage, inbox, evq, syncFunctions, cleanupFunctions, last,
          codec>>

----------------------------------------------------------------------------
\* Bounds of the model.
MaxUnits == 2
MaxTime == 2
MaxQueue == 1

Units == 1..MaxUnits
Contexts == {"tabA", "tabB"}
\* options.key: two key strings, and the key of an options object without one.
undefined == "undefined"
Keys == {"k", "j", undefined}
OneKey == {"k"}
Values == {"v0", "v1"}
initialValue == "v0"
Flavors == {"store", "signal"}

----------------------------------------------------------------------------
\* Payload texts. A payload is the text JSON.stringify produced; the store
\* flavor writes {data, timestamp}, the signal flavor {timestamp, data, type},
\* so the two layouts are different texts even for equal data and timestamp.
NullItem == [kind |-> "null", data |-> "", timestamp |-> 0, shape |-> ""]

Envelope(d, t, sh) == [kind |-> "env", data |-> d, timestamp |-> t, shape |-> sh]

isValidSyncData(p) == p.kind = "env"

\* Texts that are not envelopes: one that JSON.parse rejects, and the JSON of
\* an object with a numeric timestamp and no data field ({"timestamp": t}).
Garbage == [kind |-> "garbage", data |-> "", timestamp |-> 0, shape |-> "foreign"]

NoData(t) == [kind |-> "nodata", data |-> "undefined", timestamp |-> t, shape |-> "foreign"]

Malformed == {Garbage, NoData(MaxTime)}

\* Variant: both flavors under one prefix.
PrefixShared(f) == "syncstore"

\* Template-literal key `syncstore-${key}` / `syncsignal-${key}`.
Prefix(f) == IF f = "signal" THEN "syncsignal" ELSE "syncstore"

StoreKey(f, k) == <<Prefix(f), k>>

StorageKeys == {"syncstore", "syncsignal"} \X Keys

----------------------------------------------------------------------------
\* A slot no construction has used yet.
FreeUnit ==
    [st |-> "free", ctx |-> "tabA", flavor |-> "store", key |-> "k",
     storageType |-> "broadcast", autoSync |-> FALSE,
     value |-> initialValue, lastUpdate |-> 0,
     channel |-> "null", channelClosed |-> FALSE,
     storageListener |-> FALSE, pollingInterval |-> FALSE, lastData |-> NullItem,
     throttleTimeout |-> FALSE, lastValueStr |-> initialValue]

NoPre == [u \in Units |-> [w |-> 0, v |-> initialValue]]

\* History of the last handler: its name, the units it ran for, the payload it
\* read (construction: the entry found in localStorage), the number of sync()
\* calls it made, persistOnLoad (construction), what the units held before
\* (incoming paths), the `type` argument (clearSyncData), and the keys whose
\* cleanup threw (clearAllSyncData).
Event(op, us, env, n) ==
    [op |-> op, us |-> us, env |-> env, n |-> n, pol |-> FALSE, pre |-> NoPre,
     type |-> "", failed |-> {}]

\* The part of the state a handler and the functions it calls work on; n counts
\* the sync() calls made while the handler runs.
World == [unit |-> unit, storage |-> storage, inbox |-> inbox, evq |-> evq, n |-> 0]

Bounded(W) ==
    /\ \A u \in Units : Len(W.inbox[u]) <= MaxQueue
    /\ \A c \in Contexts : Len(W.evq[c]) <= MaxQueue

Commit(W) ==
    /\ unit' = W.unit
    /\ storage' = W.storage
    /\ inbox' = W.inbox
    /\ evq' = W.evq

----------------------------------------------------------------------------
\* A tab is open from the first construction that runs in it.
OpenTabs(W) == {W.unit[x].ctx : x \in {y \in Units : W.unit[y].st # "free"}}

\* Host: localStorage.setItem from tab c. Every other open tab gets a storage
\* event when the entry's text changes.
setItem(W, c, sk, p) ==
    [W EXCEPT !.storage[sk] = p,
              !.evq = [d \in Contexts |->
                          IF d # c /\ d \in OpenTabs(W) /\ W.storage[sk] # p
                          THEN Append(W.evq[d], [key |-> sk, newValue |-> p])
                          ELSE W.evq[d]]]

\* Host: channel.postMessage by unit u on channel `name`: a message event for
\* every other open BroadcastChannel object of that name, in any tab.
postMessage(W, u, name, p) ==
    [W EXCEPT !.inbox = [x \in Units |->
                            IF /\ x # u
                               /\ W.unit[x].channel = "open"
                               /\ StoreKey(W.unit[x].flavor, W.unit[x].key) = name
                            THEN Append(W.inbox[x], p)
                            ELSE W.inbox[x]]]

----------------------------------------------------------------------------
\* createSyncStore: sync
StoreSync(W, u) ==
    LET U == W.unit[u]
        payload == Envelope(U.value, now, "store")
        W1 == [W EXCEPT !.unit[u].lastUpdate = now, !.n = W.n + 1]
        W2 == setItem(W1, U.ctx, StoreKey("store", U.key), payload)
    IN  IF U.storageType = "broadcast" /\ bc /\ U.channel # "null" /\ ~U.channelClosed
        THEN IF U.channel = "open"
             THEN postMessage(W2, u, StoreKey("store", U.key), payload)
             ELSE [W2 EXCEPT !.unit[u].channelClosed = TRUE,
                             !.unit[u].channel = "null"]
        ELSE W2

\* createSyncSignal: sync. postMessage comes first; on a closed channel it
\* throws InvalidStateError, and the catch skips setItem and setLastUpdate.
SignalSync(W, u) ==
    LET U == W.unit[u]
        serializedData == Envelope(U.value, now, "signal")
        Wn == [W EXCEPT !.n = W.n + 1]
        W1 == IF U.channel = "open"
              THEN postMessage(Wn, u, StoreKey("signal", U.key), serializedData)
              ELSE Wn
        W2 == setItem(W1, U.ctx, StoreKey("signal", U.key), serializedData)
    IN  IF U.channel = "closed"
        THEN Wn
        ELSE [W2 EXCEPT !.unit[u].lastUpdate = now]

sync(W, u) == IF W.unit[u].flavor = "store" THEN StoreSync(W, u) ELSE SignalSync(W, u)

----------------------------------------------------------------------------
\* loadExistingData of both flavors: <<world, loaded>>.
loadExistingData(W, u) ==
    LET U == W.unit[u]
        existingData == W.storage[StoreKey(U.flavor, U.key)]
    IN  IF existingData # NullItem /\ isValidSyncData(existingData)
        THEN <<[W EXCEPT !.unit[u].value = existingData.data,
                         !.unit[u].lastUpdate = existingData.timestamp], TRUE>>
        ELSE <<W, FALSE>>

\* Variant: the initial sync() runs whatever the flag and the load say.
persistOnLoadBlockAlways(W, u, persistOnLoad) == sync(loadExistingData(W, u)[1], u)

\* The persistOnLoad block that ends both constructors.
persistOnLoadBlock(W, u, persistOnLoad) ==
    IF persistOnLoad
    THEN LET r == loadExistingData(W, u)
         IN  IF r[2] THEN r[1] ELSE sync(r[1], u)
    ELSE W

----------------------------------------------------------------------------
\* Incoming paths. Each handler changes only the closure state of its own unit.

\* JSON.parse / deserializeData returned (it throws on a text that is not
\* JSON, and the handler's catch ends the handler) and gave a truthy object.
truthy(p) == p.kind \notin {"null", "garbage"}

\* createSyncSignal: wrappedSetValue (autoSync): set, compare the serialized
\* value with lastValueStr, and (re)start the throttle timer on a difference.
wrappedSetValue(U, v) ==
    LET U1 == [U EXCEPT !.value = v]
    IN  IF v # U.lastValueStr
        THEN [U1 EXCEPT !.lastValueStr = v, !.throttleTimeout = TRUE]
        ELSE U1

\* Variant: the setter is wrapped whatever autoSync says.
setValueWrapped(U, v) == wrappedSetValue(U, v)

\* createSyncSignal: the variable `setValue` as the handlers see it once the
\* constructor has returned (line 292 rebinds it when autoSync is on).
setValue(U, v) == IF U.autoSync THEN wrappedSetValue(U, v) ELSE [U EXCEPT !.value = v]

\* Variant: an envelope as old as the watermark is accepted too.
StoreApplyTies(U, p) ==
    IF isValidSyncData(p) /\ p.timestamp >= U.lastUpdate
    THEN [U EXCEPT !.value = p.data, !.lastUpdate = p.timestamp]
    ELSE U

\* createSyncStore: channel.onmessage, storageListener body, polling body.
StoreApply(U, p) ==
    IF isValidSyncData(p) /\ p.timestamp > U.lastUpdate
    THEN [U EXCEPT !.value = p.data, !.lastUpdate = p.timestamp]
    ELSE U

\* Variant: no comparison with lastUpdate().
SignalOnMessageNoGate(U, p) ==
    IF truthy(p) /\ isValidSyncData(p)
    THEN [setValue(U, p.data) EXCEPT !.lastUpdate = p.timestamp]
    ELSE U

\* createSyncSignal: channel.onmessage.
SignalOnMessage(U, p) ==
    IF truthy(p) /\ isValidSyncData(p) /\ p.timestamp > U.lastUpdate
    THEN [setValue(U, p.data) EXCEPT !.lastUpdate = p.timestamp]
    ELSE U

\* createSyncSignal: storageListener body and polling body (no shape check).
SignalStorageApply(U, p) ==
    IF truthy(p) /\ p.timestamp > U.lastUpdate
    THEN [setValue(U, p.data) EXCEPT !.lastUpdate = p.timestamp]
    ELSE U

onmessage(U, p) == IF U.flavor = "store" THEN StoreApply(U, p) ELSE SignalOnMessage(U, p)

\* Variant: a listener that ignores every storage event.
storageListenerDeaf(U, e) == U

storageListener(U, e) ==
    IF e.key = StoreKey(U.flavor, U.key) /\ e.newValue # NullItem
    THEN IF U.flavor = "store" THEN StoreApply(U, e.newValue)
                               ELSE SignalStorageApply(U, e.newValue)
    ELSE U

\* The setInterval callback of both flavors. On a text that is not JSON the
\* parse throws before `lastData = newData` is reached.
pollCallback(U, newData) ==
    IF newData # U.lastData /\ newData # NullItem /\ newData.kind # "garbage"
    THEN [(IF U.flavor = "store" THEN StoreApply(U, newData)
                                 ELSE SignalStorageApply(U, newData))
            EXCEPT !.lastData = newData]
    ELSE U

----------------------------------------------------------------------------
\* cleanup of both flavors, the part that works on the closure state.
StoreCleanup(U) ==
    [U EXCEPT !.st = IF U.st = "live" THEN "torn" ELSE U.st,
              !.channelClosed = IF U.channel # "null" THEN TRUE ELSE U.channelClosed,
              !.channel = "null",
              !.storageListener = FALSE,
              !.pollingInterval = FALSE]

SignalCleanup(U) ==
    [U EXCEPT !.st = IF U.st = "live" THEN "torn" ELSE U.st,
              !.throttleTimeout = FALSE,
              !.channel = IF U.channel = "null" THEN "null" ELSE "closed",
              !.storageListener = FALSE,
              !.pollingInterval = FALSE]

cleanupUnit(U) == IF U.flavor = "store" THEN StoreCleanup(U) ELSE SignalCleanup(U)

\* syncFunctions.delete(key) / cleanupFunctions.delete(key) in tab c.
RegistryDelete(reg, c, k) == [reg EXCEPT ![c][k] = 0]

RegistrySet(reg, c, k, u) == [reg EXCEPT ![c][k] = u]

\* cleanup() of unit u: closure state, the host dropping the messages still
\* queued to the closed channel object, and both registry deletes by key.
cleanup(W, u) ==
    [W EXCEPT !.unit[u] = cleanupUnit(W.unit[u]),
              !.inbox[u] = <<>>]

----------------------------------------------------------------------------
Pre(us) == [u \in Units |-> IF u \in us
                             THEN [w |-> unit[u].lastUpdate, v |-> unit[u].value]
                             ELSE NoPre[u]]

FreeSlots == {u \in Units : unit[u].st = "free"}

NewUnit == CHOOSE u \in FreeSlots : \A x \in FreeSlots : u <= x

\* ---------------------------------------------------------------------------
\* The codec. A JavaScript value is a leaf or an array of leaves; a leaf is a
\* string, null, a Date (named by the ISO text of its time value), an Invalid
\* Date, or the plain object {__type: "Date", value: s}. JSON text is written
\* as the tree it denotes: its leaves are strings, null and plain objects.
MaxItems == 2

Iso == "2020-01-01T00:00:00.000Z"
Strs == {Iso, "x"}
Parses(s) == s = Iso

Str(s) == [t |-> "string", s |-> s]
Null == [t |-> "null", s |-> ""]
DateOf(s) == [t |-> "Date", s |-> s]
InvalidDate == [t |-> "InvalidDate", s |-> ""]
Tagged(s) == [t |-> "tagged", s |-> s]

Leaves == {Str(s) : s \in Strs} \cup {Null, DateOf(Iso), InvalidDate}
              \cup {Tagged(s) : s \in Strs}
TextLeaves == {Str(s) : s \in Strs} \cup {Null} \cup {Tagged(s) : s \in Strs}

Arrays(L) == UNION {[1..n -> L] : n \in 0..MaxItems}
JSValues == [arr : {FALSE}, items : [1..1 -> Leaves]]
                \cup [arr : {TRUE}, items : Arrays(Leaves)]
Texts == [arr : {FALSE}, items : [1..1 -> TextLeaves]]
             \cup [arr : {TRUE}, items : Arrays(TextLeaves)]
NoValue == [arr |-> TRUE, items |-> <<>>]

\* Date.prototype.toJSON, which JSON.stringify calls on a value before it hands
\* the value to the replacer: the ISO string, or null for an Invalid Date.
toJSON(x) ==
    CASE x.t = "Date" -> Str(x.s)
      [] x.t = "InvalidDate" -> Null
      [] OTHER -> x

toISOString(x) == IF x.t = "Date" THEN x.s ELSE "RangeError"

\* the replacer of serializeData: `value instanceof Date` ? tagged : value
replacer(x) ==
    IF x.t \in {"Date", "InvalidDate"} THEN Tagged(toISOString(x)) ELSE x

serializeData(v) ==
    [v EXCEPT !.items = [i \in DOMAIN v.items |-> replacer(toJSON(v.items[i]))]]

\* JSON.stringify without replacer, as the store's sync calls it
stringify(v) ==
    [v EXCEPT !.items = [i \in DOMAIN v.items |-> toJSON(v.items[i])]]

\* new Date(string) never throws: an unparsable string gives an Invalid Date
newDate(s) == IF Parses(s) THEN DateOf(s) ELSE InvalidDate

\* the reviver of deserializeData: `value && value.__type === "Date"`
reviver(x) == IF x.t = "tagged" THEN newDate(x.s) ELSE x

deserializeData(text) ==
    [text EXCEPT !.items = [i \in DOMAIN text.items |-> reviver(text.items[i])]]

\* JSON.parse without reviver, as the store's handlers call it
parse(text) ==
    [text EXCEPT !.items = [i \in DOMAIN text.items |-> text.items[i]]]

encode(flavor, v) == IF flavor = "signal" THEN serializeData(v) ELSE stringify(v)
decode(flavor, text) == IF flavor = "signal" THEN deserializeData(text) ELSE parse(text)

Idle ==
    [stage |-> "idle", flavor |-> "store", own |-> FALSE,
     v |-> NoValue, text |-> NoValue, out |-> NoValue]

Init ==
    /\ now = 0
    /\ bc \in BOOLEAN
    /\ unit = [u \in Units |-> FreeUnit]
    /\ storage = [sk \in StorageKeys |-> NullItem]
    /\ inbox = [u \in Units |-> <<>>]
    /\ evq = [c \in Contexts |-> <<>>]
    /\ syncFunctions = [c \in Contexts |-> [k \in Keys |-> 0]]
    /\ cleanupFunctions = [c \in Contexts |-> [k \in Keys |-> 0]]
    /\ last = Event("init", {}, NullItem, 0)
    /\ codec = Idle

\* Date.now() moves on.
Tick ==
    /\ now < MaxTime
    /\ now' = now + 1
    /\ last' = Event("tick", {}, NullItem, 0)
    /\ UNCHANGED <<codec, bc, unit, storage, inbox, evq, syncFunctions, cleanupFunctions>>

\* createSyncStore({key, initialValue, storageType, persistOnLoad, pollingInterval})
createSyncStore(c, k, sType, pol, poll) ==
    /\ FreeSlots # {}
    /\ LET u == NewUnit
           useChannel == sType = "broadcast" /\ bc
           U0 == [FreeUnit EXCEPT
                    !.st = "live", !.ctx = c, !.flavor = "store", !.key = k,
                    !.storageType = sType,
                    !.value = initialValue, !.lastUpdate = now,
                    !.channel = IF useChannel THEN "open" ELSE "null",
                    !.storageListener = ~useChannel,
                    !.pollingInterval = ~useChannel /\ poll,
                    !.lastData = IF ~useChannel /\ poll
                                 THEN storage[StoreKey("store", k)] ELSE NullItem]
           W0 == [World EXCEPT !.unit[u] = U0]
           W1 == persistOnLoadBlock(W0, u, pol)
       IN  /\ Bounded(W1)
           /\ Commit(W1)
           /\ syncFunctions' = RegistrySet(syncFunctions, c, k, u)
           /\ cleanupFunctions' = RegistrySet(cleanupFunctions, c, k, u)
           /\ last' = [Event("create", {u}, storage[StoreKey("store", k)], W1.n)
                         EXCEPT !.pol = pol]
    /\ UNCHANGED <<codec, now, bc>>

\* createSyncSignal(initialValue, {key, storageType, autoSync, pollingInterval,
\* persistOnLoad}); storageType is an option of SyncOptions the body never reads.
createSyncSignal(c, k, sType, pol, poll, auto) ==
    /\ FreeSlots # {}
    /\ LET u == NewUnit
           U0 == [FreeUnit EXCEPT
                    !.st = "live", !.ctx = c, !.flavor = "signal", !.key = k,
                    !.storageType = sType, !.autoSync = auto,
                    !.value = initialValue, !.lastUpdate = now,
                    !.channel = IF bc THEN "open" ELSE "null",
                    !.storageListener = ~bc,
                    !.pollingInterval = ~bc /\ poll,
                    !.lastData = IF ~bc /\ poll
                                 THEN storage[StoreKey("signal", k)] ELSE NullItem]
           W0 == loadExistingData([World EXCEPT !.unit[u] = U0], u)[1]
           W1 == persistOnLoadBlock(W0, u, pol)
           W2 == [W1 EXCEPT !.unit[u].lastValueStr = initialValue]
       IN  /\ Bounded(W2)
           /\ Commit(W2)
           /\ syncFunctions' = RegistrySet(syncFunctions, c, k, u)
           /\ cleanupFunctions' = RegistrySet(cleanupFunctions, c, k, u)
           /\ last' = [Event("create", {u}, storage[StoreKey("signal", k)], W2.n)
                         EXCEPT !.pol = pol]
    /\ UNCHANGED <<codec, now, bc>>

\* A local mutation through the returned setter (setStore / setValue).
SetValue(u, v) ==
    /\ unit[u].st # "free"
    /\ unit' = [unit EXCEPT ![u] =
                  IF unit[u].flavor = "store" THEN [unit[u] EXCEPT !.value = v]
                                              ELSE setValue(unit[u], v)]
    /\ last' = Event("set", {u}, NullItem, 0)
    /\ UNCHANGED <<codec, now, bc, storage, inbox, evq, syncFunctions, cleanupFunctions>>

\* The caller runs the returned sync().
Sync(u) ==
    /\ unit[u].st # "free"
    /\ LET W1 == sync(World, u)
       IN  /\ Bounded(W1)
           /\ Commit(W1)
           /\ last' = Event("sync", {u}, NullItem, W1.n)
    /\ UNCHANGED <<codec, now, bc, syncFunctions, cleanupFunctions>>

\* The throttle timer's callback: sync(); throttleTimeout = null.
ThrottleFire(u) ==
    /\ unit[u].throttleTimeout
    /\ LET W1 == sync(World, u)
           W2 == [W1 EXCEPT !.unit[u].throttleTimeout = FALSE]
       IN  /\ Bounded(W2)
           /\ Commit(W2)
           /\ last' = Event("timer", {u}, NullItem, W2.n)
    /\ UNCHANGED <<codec, now, bc, syncFunctions, cleanupFunctions>>

\* A message event reaches unit u's channel.onmessage.
DeliverMessage(u) ==
    /\ inbox[u] # <<>>
    /\ unit[u].channel = "open"
    /\ unit' = [unit EXCEPT ![u] = onmessage(unit[u], Head(inbox[u]))]
    /\ inbox' = [inbox EXCEPT ![u] = Tail(inbox[u])]
    /\ last' = [Event("message", {u}, Head(inbox[u]), 0) EXCEPT !.pre = Pre({u})]
    /\ UNCHANGED <<codec, now, bc, storage, evq, syncFunctions, cleanupFunctions>>

Listening(c) == {x \in Units : unit[x].ctx = c /\ unit[x].storageListener}

Hearing(c, sk) == {x \in Listening(c) : sk = StoreKey(unit[x].flavor, unit[x].key)}

\* A storage event is dispatched on tab c's window: every attached listener runs.
DeliverStorage(c) ==
    /\ evq[c] # <<>>
    /\ unit' = [x \in Units |-> IF x \in Listening(c)
                                THEN storageListener(unit[x], Head(evq[c]))
                                ELSE unit[x]]
    /\ evq' = [evq EXCEPT ![c] = Tail(evq[c])]
    /\ last' = [Event("storage", Hearing(c, Head(evq[c]).key), Head(evq[c]).newValue, 0)
                   EXCEPT !.pre = Pre(Hearing(c, Head(evq[c]).key))]
    /\ UNCHANGED <<codec, now, bc, storage, inbox, syncFunctions, cleanupFunctions>>

\* The polling interval of unit u ticks.
PollTick(u) ==
    /\ unit[u].pollingInterval
    /\ unit' = [unit EXCEPT ![u] =
                  pollCallback(unit[u], storage[StoreKey(unit[u].flavor, unit[u].key)])]
    /\ last' = [Event("poll", {u},
                      IF storage[StoreKey(unit[u].flavor, unit[u].key)] # unit[u].lastData
                      THEN storage[StoreKey(unit[u].flavor, unit[u].key)] ELSE NullItem,
                      0) EXCEPT !.pre = Pre({u})]
    /\ UNCHANGED <<codec, now, bc, storage, inbox, evq, syncFunctions, cleanupFunctions>>

\* onCleanup(cleanup): the reactive owner of unit u is disposed (at most once).
Dispose(u) ==
    /\ unit[u].st \in {"live", "torn"}
    /\ LET W1 == cleanup(World, u)
       IN  Commit([W1 EXCEPT !.unit[u].st = "disposed"])
    /\ syncFunctions' = RegistryDelete(syncFunctions, unit[u].ctx, unit[u].key)
    /\ cleanupFunctions' = RegistryDelete(cleanupFunctions, unit[u].ctx, unit[u].key)
    /\ last' = Event("dispose", {u}, NullItem, 0)
    /\ UNCHANGED <<codec, now, bc>>

\* Host: localStorage.removeItem from tab c.
removeItem(W, c, sk) ==
    [W EXCEPT !.storage[sk] = NullItem,
              !.evq = [d \in Contexts |->
                          IF d # c /\ d \in OpenTabs(W) /\ W.storage[sk] # NullItem
                          THEN Append(W.evq[d], [key |-> sk, newValue |-> NullItem])
                          ELSE W.evq[d]]]

\* clearSyncData(key, type) called in tab c.
clearSyncData(c, k, type) ==
    /\ LET reg == cleanupFunctions[c][k]
           W1 == IF reg # 0 THEN cleanup(World, reg) ELSE World
           W2 == removeItem(W1, c, StoreKey(type, k))
       IN  /\ Bounded(W2)
           /\ Commit(W2)
           /\ last' = [Event("clear", IF reg # 0 THEN {reg} ELSE {}, NullItem, 0)
                         EXCEPT !.type = type]
    /\ syncFunctions' = RegistryDelete(syncFunctions, c, k)
    /\ cleanupFunctions' = RegistryDelete(cleanupFunctions, c, k)
    /\ UNCHANGED <<codec, now, bc>>

\* createSyncSignal(initialValue) with the options argument missing: the
\* destructuring of `options` (undefined) throws a TypeError before anything is
\* created, registered, opened or written. The history records a constructor
\* call that produced no unit.
createSyncSignalNoOptions(c) ==
    /\ last' = Event("create", {}, NullItem, 0)
    /\ UNCHANGED <<codec, now, bc, unit, storage, inbox, evq, syncFunctions, cleanupFunctions>>

\* All orders in which a set can be enumerated.
RECURSIVE Perms(_)
Perms(S) ==
    IF S = {} THEN {<<>>}
    ELSE UNION {{<<x>> \o q : q \in Perms(S \ {x})} : x \in S}

\* The keys localStorage holds.
StoredKeys == {sk \in StorageKeys : storage[sk] # NullItem}

\* clearAllSyncData: cleanupFunctions.forEach with the try/catch around each
\* cleanup; `us` are the units whose cleanup ran to its end.
cleanupEach(W, us) ==
    [W EXCEPT !.unit = [x \in Units |-> IF x \in us THEN cleanupUnit(W.unit[x])
                                                     ELSE W.unit[x]],
              !.inbox = [x \in Units |-> IF x \in us THEN <<>> ELSE W.inbox[x]]]

\* Variant: only the keys that start with 'syncstore-' are collected.
RECURSIVE removeEachStoreOnly(_, _, _)
removeEachStoreOnly(W, c, order) ==
    IF order = <<>> THEN W
    ELSE removeEachStoreOnly(IF Head(order)[1] = "syncstore"
                             THEN removeItem(W, c, Head(order)) ELSE W,
                             c, Tail(order))

\* clearAllSyncData: keysToRemove.forEach(localStorage.removeItem), the keys in
\* the order localStorage.key(i) enumerated them.
RECURSIVE removeEach(_, _, _)
removeEach(W, c, order) ==
    IF order = <<>> THEN W
    ELSE removeEach(removeItem(W, c, Head(order)), c, Tail(order))

\* clearAllSyncData() called in tab c. `failing` are the keys whose registered
\* cleanup throws when called (the registry is an exported Map; the cleanups of
\* the two constructors themselves do not throw): such a cleanup does nothing,
\* the catch swallows the error and forEach goes on.
clearAllSyncData(c, failing, order) ==
    /\ LET registered == {k \in Keys : cleanupFunctions[c][k] # 0}
           visited == {cleanupFunctions[c][k] : k \in registered}
           ran == {cleanupFunctions[c][k] : k \in registered \ failing}
           W1 == cleanupEach(World, ran)
           W2 == removeEach(W1, c, order)
       IN  /\ failing \subseteq registered
           /\ order \in Perms(StoredKeys)
           /\ Bounded(W2)
           /\ Commit(W2)
           /\ last' = [Event("clearAll", visited, NullItem, 0) EXCEPT !.failed = failing]
    /\ syncFunctions' = [syncFunctions EXCEPT ![c] = [k \in Keys |-> 0]]
    /\ cleanupFunctions' = [cleanupFunctions EXCEPT ![c] = [k \in Keys |-> 0]]
    /\ UNCHANGED <<codec, now, bc>>

StorageTypes == {"broadcast", "localStorage"}

FirstUnit == FreeSlots = Units

\* Two tabs. The tabs are interchangeable, so the first unit is constructed in
\* tabA with any options; the second one is constructed in tabB, in manual mode
\* and without polling.
Next ==
    \/ Tick
    \/ \E k \in OneKey, sType \in StorageTypes, pol \in BOOLEAN, poll \in BOOLEAN :
          FirstUnit /\ createSyncStore("tabA", k, sType, pol, poll)
    \/ \E k \in OneKey, pol \in BOOLEAN, poll \in BOOLEAN, auto \in BOOLEAN :
          FirstUnit /\ createSyncSignal("tabA", k, "broadcast", pol, poll, auto)
    \/ \E k \in OneKey, sType \in StorageTypes, pol \in BOOLEAN :
          ~FirstUnit /\ createSyncStore("tabB", k, sType, pol, FALSE)
    \/ \E k \in OneKey, pol \in BOOLEAN :
          ~FirstUnit /\ createSyncSignal("tabB", k, "broadcast", pol, FALSE, FALSE)
    \/ \E u \in Units, v \in Values : SetValue(u, v)
    \/ \E u \in Units : Sync(u)
    \/ \E u \in Units : ThrottleFire(u)
    \/ \E u \in Units : DeliverMessage(u)
    \/ \E c \in Contexts : DeliverStorage(c)
    \/ \E u \in Units : PollTick(u)

Spec == Init /\ [][Next]_vars

\* One tab, teardown included: units of one tab in any order, owner disposal
\* and clearSyncData, all within one clock reading.
NextTeardown ==
    \/ \E k \in OneKey, sType \in StorageTypes, pol \in BOOLEAN :
          createSyncStore("tabA", k, sType, pol, FALSE)
    \/ \E k \in OneKey, pol \in BOOLEAN, auto \in BOOLEAN :
          createSyncSignal("tabA", k, "broadcast", pol, FALSE, auto)
    \/ \E u \in Units, v \in Values : SetValue(u, v)
    \/ \E u \in Units : Sync(u)
    \/ \E u \in Units : ThrottleFire(u)
    \/ \E u \in Units : DeliverMessage(u)
    \/ \E u \in Units : Dispose(u)
    \/ \E k \in OneKey, type \in Flavors : clearSyncData("tabA", k, type)

SpecTeardown == Init /\ [][NextTeardown]_vars

\* Another page of the origin (one that runs no unit) writes a text under a
\* unit's key, or posts one on a channel of a unit's name.
ForeignWrite(sk, p) ==
    /\ LET W1 == setItem(World, "tabB", sk, p)
       IN  /\ Bounded(W1)
           /\ Commit(W1)
    /\ last' = Event("foreign", {}, p, 0)
    /\ UNCHANGED <<codec, now, bc, syncFunctions, cleanupFunctions>>

ForeignPost(name, p) ==
    /\ LET W1 == postMessage(World, 0, name, p)
       IN  /\ W1.inbox # inbox
           /\ Bounded(W1)
           /\ Commit(W1)
    /\ last' = Event("foreign", {}, p, 0)
    /\ UNCHANGED <<codec, now, bc, syncFunctions, cleanupFunctions>>

\* One tab with units and a foreign page: malformed texts reach the units by
\* the initial load, the channel, the storage event and the poll tick.
NextForeign ==
    \/ \E k \in OneKey, sType \in StorageTypes, pol \in BOOLEAN, poll \in BOOLEAN :
          createSyncStore("tabA", k, sType, pol, poll)
    \/ \E k \in OneKey, pol \in BOOLEAN, poll \in BOOLEAN :
          createSyncSignal("tabA", k, "broadcast", pol, poll, FALSE)
    \/ \E f \in Flavors, k \in OneKey, p \in Malformed : ForeignWrite(StoreKey(f, k), p)
    \/ \E f \in Flavors, k \in OneKey, p \in Malformed : ForeignPost(StoreKey(f, k), p)
    \/ \E u \in Units : Sync(u)
    \/ \E u \in Units : DeliverMessage(u)
    \/ DeliverStorage("tabA")
    \/ \E u \in Units : PollTick(u)

SpecForeign == Init /\ [][NextForeign]_vars

\* A writer and a reader: the first unit, in tabA, mutates, syncs as the clock
\* moves and may lose its owner; the second unit, in tabB, is constructed
\* without persistOnLoad and only receives.
NextOrder ==
    \/ Tick
    \/ \E k \in OneKey, sType \in StorageTypes, pol \in BOOLEAN :
          FirstUnit /\ createSyncStore("tabA", k, sType, pol, FALSE)
    \/ \E k \in OneKey, pol \in BOOLEAN :
          FirstUnit /\ createSyncSignal("tabA", k, "broadcast", pol, FALSE, FALSE)
    \/ \E k \in OneKey, sType \in StorageTypes :
          ~FirstUnit /\ createSyncStore("tabB", k, sType, FALSE, FALSE)
    \/ \E k \in OneKey :
          ~FirstUnit /\ createSyncSignal("tabB", k, "broadcast", FALSE, FALSE, FALSE)
    \/ \E v \in Values : SetValue(1, v)
    \/ Sync(1)
    \/ Dispose(1)
    \/ DeliverMessage(2)
    \/ DeliverStorage("tabB")

SpecOrder == Init /\ [][NextOrder]_vars

\* The codec alone: a unit of either flavor encodes a value in its sync, or
\* another script writes a text, and a unit of that flavor decodes the text.
CodecSync(flavor, v) ==
    /\ codec.stage = "idle"
    /\ codec' = [stage |-> "encoded", flavor |-> flavor, own |-> TRUE,
                 v |-> v, text |-> encode(flavor, v), out |-> NoValue]
    /\ UNCHANGED <<now, bc, unit, storage, inbox, evq, syncFunctions,
                   cleanupFunctions, last>>

CodecForeign(flavor, text) ==
    /\ codec.stage = "idle"
    /\ codec' = [stage |-> "encoded", flavor |-> flavor, own |-> FALSE,
                 v |-> NoValue, text |-> text, out |-> NoValue]
    /\ UNCHANGED <<now, bc, unit, storage, inbox, evq, syncFunctions,
                   cleanupFunctions, last>>

CodecApply ==
    /\ codec.stage = "encoded"
    /\ codec' = [codec EXCEPT !.stage = "decoded",
                              !.out = decode(codec.flavor, codec.text)]
    /\ UNCHANGED <<now, bc, unit, storage, inbox, evq, syncFunctions,
                   cleanupFunctions, last>>

NextCodec ==
    \/ \E flavor \in Flavors, v \in JSValues : CodecSync(flavor, v)
    \/ \E flavor \in Flavors, text \in Texts : CodecForeign(flavor, text)
    \/ CodecApply

SpecCodec == Init /\ [][NextCodec]_vars

\* One tab, the utilities and the option handling: constructor calls with and
\* without key / options and with either storageType, sync, message delivery
\* and clearAllSyncData, all within one clock reading.
SignalStorageTypes == {"broadcast", "local"}

NextUtil ==
    \/ \E k \in Keys, sType \in StorageTypes, pol \in BOOLEAN :
          createSyncStore("tabA", k, sType, pol, FALSE)
    \/ \E k \in Keys \ {undefined}, sType \in SignalStorageTypes, pol \in BOOLEAN :
          createSyncSignal("tabA", k, sType, pol, FALSE, FALSE)
    \/ createSyncSignalNoOptions("tabA")
    \/ \E u \in Units, v \in Values : SetValue(u, v)
    \/ \E u \in Units : Sync(u)
    \/ \E u \in Units : DeliverMessage(u)
    \/ \E failing \in SUBSET Keys, order \in Perms(StoredKeys) :
          clearAllSyncData("tabA", failing, order)

SpecUtil == Init /\ [][NextUtil]_vars

----------------------------------------------------------------------------
\* Vocabulary of the properties.

Deliveries == {"message", "storage", "poll"}

UKey(u) == StoreKey(unit[u].flavor, unit[u].key)

Live(u) == unit[u].st = "live"

\* C1: last write wins. A valid envelope B that an incoming path (channel
\* message, storage event, poll tick) hands to a unit replaces value and
\* watermark exactly when B.timestamp is strictly greater than the watermark,
\* and changes nothing otherwise. For two envelopes A then B handed to the same
\* unit that had watermark w: with different timestamps, the greater one's data
\* is the final value whenever that timestamp exceeds w; with equal timestamps
\* B is discarded; with both at or below w the value is the one held before A.
C1_LastWriteWins ==
    [][\A u \in Units :
          (last'.op \in Deliveries /\ u \in last'.us /\ isValidSyncData(last'.env)) =>
             LET B == last'.env
             IN  /\ B.timestamp > unit[u].lastUpdate =>
                       /\ unit'[u].value = B.data
                       /\ unit'[u].lastUpdate = B.timestamp
                 /\ B.timestamp <= unit[u].lastUpdate =>
                       /\ unit'[u].value = unit[u].value
                       /\ unit'[u].lastUpdate = unit[u].lastUpdate
                 /\ (last.op \in Deliveries /\ u \in last.us /\ isValidSyncData(last.env)) =>
                       LET A == last.env
                           w == last.pre[u].w
                       IN  /\ (A.timestamp > B.timestamp /\ A.timestamp > w) =>
                                 unit'[u].value = A.data
                           /\ (B.timestamp > A.timestamp /\ B.timestamp > w) =>
                                 unit'[u].value = B.data
                           /\ A.timestamp = B.timestamp =>
                                 unit'[u].value = unit[u].value
                           /\ (A.timestamp <= w /\ B.timestamp <= w) =>
                                 unit'[u].value = last.pre[u].v
      ]_vars

\* An incoming envelope newer than the watermark has just replaced a different value.
C1_Witness ==
    \E u \in last.us :
        /\ last.op \in Deliveries
        /\ isValidSyncData(last.env)
        /\ last.env.timestamp > last.pre[u].w
        /\ unit[u].value = last.env.data
        /\ unit[u].value # last.pre[u].v

\* C2 as claimed: a unit's watermark starts at its creation-time value
\* (Date.now() at construction) and no step ever lowers it, the bootstrap load
\* inside the constructor included.
C2_WatermarkNeverDecreasesFromCreation ==
    [][\A u \in Units :
          /\ (unit[u].st = "free" /\ unit'[u].st # "free") => unit'[u].lastUpdate >= now
          /\ unit[u].st # "free" => unit'[u].lastUpdate >= unit[u].lastUpdate
      ]_vars

\* C2 amended: once the constructor has returned, no step (incoming envelope
\* accepted or discarded, sync(), local mutation, timer) lowers the watermark.
C2_WatermarkNeverDecreasesOnceConstructed ==
    [][\A u \in Units :
          unit[u].st # "free" => unit'[u].lastUpdate >= unit[u].lastUpdate
      ]_vars

\* A unit whose watermark is ahead has just discarded an older envelope.
C2_Witness ==
    \E u \in last.us :
        /\ last.op \in Deliveries
        /\ isValidSyncData(last.env)
        /\ last.env.timestamp < last.pre[u].w
        /\ unit[u].lastUpdate = last.pre[u].w

\* C3: eventual convergence. Nothing is in flight (no queued message or storage
\* event, no pending throttle timer, every poller has seen the stored text) and
\* no unit holds an unsynced local mutation (each was just constructed, or holds
\* exactly the stored envelope's data and timestamp): then the live units of one
\* flavor and key in different tabs hold the same value, the stored envelope's.
Quiescent ==
    /\ \A u \in Units : inbox[u] = <<>> /\ ~unit[u].throttleTimeout
    /\ \A c \in Contexts : evq[c] = <<>>
    /\ \A u \in Units : unit[u].pollingInterval => unit[u].lastData = storage[UKey(u)]

Clean(u) ==
    \/ last.op = "create" /\ u \in last.us
    \/ /\ isValidSyncData(storage[UKey(u)])
       /\ unit[u].value = storage[UKey(u)].data
       /\ unit[u].lastUpdate = storage[UKey(u)].timestamp

Peers(u, x) ==
    /\ Live(u) /\ Live(x)
    /\ unit[u].flavor = unit[x].flavor /\ unit[u].key = unit[x].key
    /\ unit[u].ctx # unit[x].ctx

C3_QuiescentConverged ==
    (Quiescent /\ \A u \in Units : Live(u) => Clean(u)) =>
        \A u, x \in Units :
            Peers(u, x) =>
                /\ unit[u].value = unit[x].value
                /\ isValidSyncData(storage[UKey(u)]) => unit[u].value = storage[UKey(u)].data

\* C4: a constructor that finds a valid envelope in localStorage leaves the unit
\* with that envelope's data and timestamp, makes no sync() and leaves the entry
\* as it was, whatever the flavor, the transport and persistOnLoad.
C4_BootstrapLoadsStoredEnvelope ==
    \A u \in Units :
        (last.op = "create" /\ u \in last.us /\ isValidSyncData(last.env)) =>
            /\ unit[u].value = last.env.data
            /\ unit[u].lastUpdate = last.env.timestamp
            /\ last.n = 0
            /\ storage[UKey(u)] = last.env

\* C5: a constructor that finds no valid envelope keeps initialValue; with
\* persistOnLoad it makes exactly one sync() and the entry becomes
\* {initialValue, construction time}; without persistOnLoad it makes none,
\* writes nothing and posts nothing.
C5_BootstrapPersist ==
    [][\A u \in Units :
          (last'.op = "create" /\ u \in last'.us /\ ~isValidSyncData(last'.env)) =>
             /\ unit'[u].value = initialValue
             /\ last'.pol =>
                   /\ last'.n = 1
                   /\ unit'[u].lastUpdate = now
                   /\ storage'[StoreKey(unit'[u].flavor, unit'[u].key)]
                         = Envelope(initialValue, now, unit'[u].flavor)
             /\ ~last'.pol =>
                   /\ last'.n = 0
                   /\ storage' = storage
                   /\ inbox' = inbox
                   /\ evq' = evq
      ]_vars

\* A constructor with persistOnLoad found no entry and wrote the initial value.
C5_Witness ==
    \E u \in last.us :
        /\ last.op = "create" /\ last.pol /\ last.env = NullItem /\ last.n = 1
        /\ storage[UKey(u)] = Envelope(initialValue, now, unit[u].flavor)

\* C6: after sync() the entry is {data: the unit's value, timestamp: the time of
\* the call}, and a unit constructed afterwards in another tab with the same
\* flavor and key holds the stored value.
C6_SyncedValueIsStoredAndLoaded ==
    \A u \in Units :
        /\ (last.op = "sync" /\ u \in last.us) =>
              storage[UKey(u)] = Envelope(unit[u].value, now, unit[u].flavor)
        /\ (last.op = "create" /\ u \in last.us /\ isValidSyncData(last.env)) =>
              unit[u].value = last.env.data

\* C7: namespace isolation. Every entry under 'syncstore-' was written by a
\* store unit and every one under 'syncsignal-' by a signal unit; a unit is only
\* ever handed payloads of its own flavor; and a sync() of a unit (called or
\* fired by the throttle timer) leaves the units, the entry and the queued
\* messages of the other flavor as they were.
C7_NamespaceIsolation ==
    [][/\ \A sk \in StorageKeys :
             storage'[sk] # NullItem => sk[1] = Prefix(storage'[sk].shape)
       /\ \A u \in Units :
             /\ \A i \in 1..Len(inbox'[u]) : inbox'[u][i].shape = unit'[u].flavor
             /\ (last'.op \in Deliveries /\ u \in last'.us /\ last'.env # NullItem) =>
                   last'.env.shape = unit[u].flavor
             /\ (last'.op \in {"sync", "timer"} /\ u \in last'.us) =>
                   /\ \A x \in Units :
                         unit[x].flavor # unit[u].flavor =>
                             unit'[x] = unit[x] /\ inbox'[x] = inbox[x]
                   /\ \A f \in Flavors, k \in Keys :
                         f # unit[u].flavor =>
                             storage'[StoreKey(f, k)] = storage[StoreKey(f, k)]
      ]_vars

\* A store unit and a signal unit share the key string, both entries exist with
\* different data, and one of the two has just synced.
C7_Witness ==
    \E u, x \in Units :
        /\ Live(u) /\ Live(x)
        /\ unit[u].flavor = "store" /\ unit[x].flavor = "signal"
        /\ unit[u].key = unit[x].key
        /\ last.op = "sync"
        /\ isValidSyncData(storage[UKey(u)]) /\ isValidSyncData(storage[UKey(x)])
        /\ storage[UKey(u)].data # storage[UKey(x)].data

\* C8: a sync() on a unit whose channel has been closed still writes the
\* envelope to localStorage.
ChannelClosed(U) ==
    \/ U.flavor = "store" /\ U.channelClosed
    \/ U.flavor = "signal" /\ U.channel = "closed"

C8_SyncOnClosedChannelPersists ==
    \A u \in Units :
        (last.op \in {"sync", "timer"} /\ u \in last.us /\ ChannelClosed(unit[u])) =>
            storage[UKey(u)] = Envelope(unit[u].value, now, unit[u].flavor)

\* C9: a second teardown of a unit leaves the registry, localStorage, the
\* channels, the listeners and the timers as they were.
Resources(U) ==
    <<U.channel, U.channelClosed, U.storageListener, U.pollingInterval, U.throttleTimeout>>

C9_TeardownIdempotent ==
    [][\A u \in Units :
          (last'.op = "dispose" /\ u \in last'.us /\ unit[u].st = "torn") =>
             /\ syncFunctions' = syncFunctions
             /\ cleanupFunctions' = cleanupFunctions
             /\ storage' = storage
             /\ inbox' = inbox
             /\ evq' = evq
             /\ \A x \in Units : Resources(unit'[x]) = Resources(unit[x])
      ]_vars

\* C10: once a unit is torn down, no incoming path changes its value or
\* watermark and no throttle-timer callback of it runs sync().
C10_NoCallbackAfterTeardown ==
    [][\A u \in Units :
          unit[u].st \in {"torn", "disposed"} =>
             /\ ~(last'.op = "timer" /\ u \in last'.us)
             /\ last'.op \in Deliveries =>
                   /\ unit'[u].value = unit[u].value
                   /\ unit'[u].lastUpdate = unit[u].lastUpdate
      ]_vars

\* C11: clearSyncData(key, flavor) tears the registered unit down and removes
\* the entry of that flavor; no later action of the cleared unit (its sync(),
\* its throttle timer) writes the entry again.
C11_ClearedEntryStaysAbsent ==
    [][\A u \in Units :
          /\ (last'.op = "clear" /\ u \in last'.us /\ last'.type = unit[u].flavor) =>
                /\ unit'[u].st # "live"
                /\ storage'[StoreKey(unit[u].flavor, unit[u].key)] = NullItem
          /\ (/\ last.op = "clear" /\ u \in last.us /\ last.type = unit[u].flavor
              /\ last'.op \in {"sync", "timer"} /\ u \in last'.us) =>
                storage'[StoreKey(unit[u].flavor, unit[u].key)] = NullItem
      ]_vars

\* C12: clearSyncData(key, flavor) leaves a live unit of the other flavor under
\* the same key string as it was: its closure state (transports), its registry
\* entries and its own entry in localStorage.
C12_ClearTouchesOnlyItsFlavor ==
    [][last'.op = "clear" =>
          \A x \in Units :
              (Live(x) /\ unit[x].flavor # last'.type) =>
                 /\ unit'[x] = unit[x]
                 /\ storage'[UKey(x)] = storage[UKey(x)]
                 /\ syncFunctions[unit[x].ctx][unit[x].key] = x =>
                       syncFunctions'[unit[x].ctx][unit[x].key] = x
                 /\ cleanupFunctions[unit[x].ctx][unit[x].key] = x =>
                       cleanupFunctions'[unit[x].ctx][unit[x].key] = x
      ]_vars

\* C14: on a live scalar unit with autoSync, a local mutation that changes the
\* value leaves exactly one throttle timer pending (the one sync() of the burst
\* is still to come), and the timer's callback makes exactly one sync(), which
\* writes the value the unit holds then. (When the timer fires is left to the
\* host: the waiting time of the burst is not part of this statement.)
C14_BurstGivesOneSync ==
    [][\A u \in Units :
          (Live(u) /\ unit[u].flavor = "signal" /\ unit[u].autoSync /\ u \in last'.us) =>
             /\ (last'.op = "set" /\ unit'[u].value # unit[u].value) =>
                   unit'[u].throttleTimeout
             /\ last'.op = "timer" =>
                   /\ last'.n = 1
                   /\ ~unit'[u].throttleTimeout
                   /\ storage'[UKey(u)] = Envelope(unit[u].value, now, "signal")
      ]_vars

\* C20: within one tab and one flavor, at most one live unit exists per key.
C20_OneLiveUnitPerKey ==
    \A u, x \in Units :
        (/\ u # x /\ Live(u) /\ Live(x)
         /\ unit[u].ctx = unit[x].ctx /\ unit[u].flavor = unit[x].flavor) =>
            unit[u].key # unit[x].key

\* C19: in manual mode (a store unit, or a signal unit with autoSync off) a
\* local mutation changes the unit's value and nothing else: localStorage, the
\* queued messages and storage events, the unit's watermark and timers and all
\* other units are as before.
C19_ManualMutationIsLocal ==
    [][\A u \in Units :
          (/\ last'.op = "set" /\ u \in last'.us
           /\ (unit[u].flavor = "store" \/ ~unit[u].autoSync)) =>
             /\ storage' = storage
             /\ inbox' = inbox
             /\ evq' = evq
             /\ [unit' EXCEPT ![u].value = unit[u].value] = unit
      ]_vars

\* A manual unit has just been mutated away from the value that is stored and
\* that its peer in the other tab holds.
C19_Witness ==
    \E u, x \in Units :
        /\ last.op = "set" /\ u \in last.us
        /\ Peers(u, x)
        /\ unit[u].flavor = "store" \/ ~unit[u].autoSync
        /\ isValidSyncData(storage[UKey(u)])
        /\ unit[x].value = storage[UKey(u)].data
        /\ unit[u].value # unit[x].value

\* C13: clearAllSyncData() tears down every registered unit whose cleanup does
\* not throw, also when the cleanup of another one throws; when it returns both
\* registries of the tab are empty and localStorage holds no key that starts
\* with 'syncstore-' or 'syncsignal-'.
C13_ClearAllClearsEverything ==
    [][last'.op = "clearAll" =>
          /\ \A u \in last'.us :
                unit[u].key \notin last'.failed =>
                   /\ unit'[u].st # "live"
                   /\ unit'[u].channel # "open"
                   /\ ~unit'[u].storageListener
                   /\ ~unit'[u].pollingInterval
          /\ \A k \in Keys :
                /\ syncFunctions'["tabA"][k] = 0
                /\ cleanupFunctions'["tabA"][k] = 0
          /\ \A sk \in StorageKeys : storage'[sk] = NullItem
      ]_vars

\* clearAllSyncData has just run over two registered units: the cleanup of one
\* threw and left it live, the other one is torn down.
C13_Witness ==
    /\ last.op = "clearAll"
    /\ \E u, x \in last.us :
          /\ unit[u].key \in last.failed /\ unit[u].st = "live"
          /\ unit[x].key \notin last.failed /\ unit[x].st = "torn"
    /\ StoredKeys = {}

\* C16: a createSyncStore call whose options have no key throws: no unit exists
\* under the missing key, nothing is registered under it and nothing is written
\* under 'syncstore-undefined'.
C16_MissingKeyRejected ==
    /\ \A u \in Units : unit[u].st # "free" => unit[u].key # undefined
    /\ \A c \in Contexts :
          syncFunctions[c][undefined] = 0 /\ cleanupFunctions[c][undefined] = 0
    /\ storage[StoreKey("store", undefined)] = NullItem

\* C17: every constructor call, the createSyncSignal call without options
\* included, returns a live unit, which holds initialValue when nothing was
\* stored for it.
C17_MissingOptionsTolerated ==
    last.op = "create" =>
        \E u \in last.us :
            /\ Live(u)
            /\ last.env = NullItem => unit[u].value = initialValue

\* C18: a unit configured in durable-only mode (storageType "localStorage" for
\* a store, "local" for a signal) has no channel and has the storage listener
\* attached, and its sync() queues no message.
DurableOnly(U) ==
    \/ U.flavor = "store" /\ U.storageType = "localStorage"
    \/ U.flavor = "signal" /\ U.storageType = "local"

C18_DurableOnlyNeverBroadcasts ==
    [][\A u \in Units :
          (unit'[u].st = "live" /\ DurableOnly(unit'[u])) =>
             /\ unit'[u].channel = "null"
             /\ unit'[u].storageListener
             /\ (last'.op = "sync" /\ u \in last'.us) => inbox' = inbox
      ]_vars

\* C15: a payload that does not decode, or that decodes to something that is
\* not an object with a data field and a numeric timestamp, is discarded on
\* every incoming path: channel message, storage event and poll tick leave value
\* and watermark as they were, and the initial load leaves initialValue and the
\* construction-time watermark.
C15_MalformedPayloadDiscarded ==
    [][\A u \in Units :
          (u \in last'.us /\ last'.env \in Malformed) =>
             /\ last'.op \in Deliveries =>
                   /\ unit'[u].value = unit[u].value
                   /\ unit'[u].lastUpdate = unit[u].lastUpdate
             /\ last'.op = "create" =>
                   /\ unit'[u].value = initialValue
                   /\ unit'[u].lastUpdate = now
      ]_vars

\* C21: decode(encode(v)) is deep-equal to v, every Date coming back as a Date,
\* for values made of strings, null, valid Dates and arrays of them, in both
\* flavors; and in a text the signal decodes, a tagged Date wrapper whose string
\* does not parse becomes the string "Invalid Date: <original>" while the other
\* items of the text decode as they do alone.
Plain(v) == \A i \in DOMAIN v.items : v.items[i].t \in {"string", "null", "Date"}

C21_CodecRoundTrip ==
    codec.stage = "decoded" =>
        /\ (codec.own /\ Plain(codec.v)) => codec.out = codec.v
        /\ codec.flavor = "signal" =>
              \A i \in DOMAIN codec.text.items :
                 LET x == codec.text.items[i] IN
                    IF x.t = "tagged" /\ ~Parses(x.s)
                    THEN codec.out.items[i] = Str("Invalid Date: " \o x.s)
                    ELSE codec.out.items[i] = reviver(x)

C23_LaterSyncWins ==
    [][(/\ last'.op \in Deliveries /\ 2 \in last'.us
        /\ isValidSyncData(last'.env)
        /\ last'.env = storage[UKey(2)]
        /\ last'.env.timestamp > 0
        /\ unit[2].value # initialValue) =>
           unit'[2].value = last'.env.data
      ]_vars

\* C24: every sync() (called, or run by the throttle timer) leaves the unit's
\* watermark equal to the timestamp it stamped, whatever became of the write and
\* of the broadcast, so the unit's own envelope can never pass its gate.
C24_SyncSetsWatermark ==
    [][\A u \in Units :
          (last'.op \in {"sync", "timer"} /\ u \in last'.us) =>
             unit'[u].lastUpdate = now
      ]_vars

\* C25: once nothing is in flight, every live unit has seen the latest envelope
\* synced for its flavor and key by a unit of another tab, whatever transport
\* each side uses: its watermark is not older than the stored envelope.
C25_EverySyncReachesPeers ==
    Quiescent =>
        \A u, x \in Units :
            (Peers(u, x) /\ isValidSyncData(storage[UKey(u)])) =>
                unit[u].lastUpdate >= storage[UKey(u)].timestamp

\* C26: with autoSync, a local mutation of a live signal unit starts the
\* throttle timer exactly when the new value differs from the value held just
\* before, wherever that value came from; a mutation to the same value leaves
\* the timer as it was.
C26_AutoSyncComparesWithPreviousValue ==
    [][\A u \in Units :
          (/\ last'.op = "set" /\ u \in last'.us
           /\ Live(u) /\ unit[u].flavor = "signal" /\ unit[u].autoSync) =>
             IF unit'[u].value # unit[u].value
             THEN unit'[u].throttleTimeout
             ELSE unit'[u].throttleTimeout = unit[u].throttleTimeout
      ]_vars

\* C27: an apply-incoming step (message, storage event, poll tick) writes
\* nothing, posts nothing and starts no timer: localStorage, the queued messages
\* of the other units and the receiving unit's throttle timer are as before.
C27_ApplyNeverSyncs ==
    [][last'.op \in Deliveries =>
          /\ storage' = storage
          /\ \A u \in last'.us : unit'[u].throttleTimeout = unit[u].throttleTimeout
          /\ \A x \in Units \ last'.us : inbox'[x] = inbox[x]
      ]_vars

\* C28: the teardown of a unit (owner disposal or clearSyncData) leaves the
\* registry entries of every other live unit in place.
C28_TeardownKeepsOthersRegistered ==
    [][last'.op \in {"dispose", "clear"} =>
          \A x \in Units \ last'.us :
              Live(x) =>
                 /\ syncFunctions[unit[x].ctx][unit[x].key] = x =>
                       syncFunctions'[unit[x].ctx][unit[x].key] = x
                 /\ cleanupFunctions[unit[x].ctx][unit[x].key] = x =>
                       cleanupFunctions'[unit[x].ctx][unit[x].key] = x
      ]_vars

\* C29: a polling interval exists only on a unit without channel, and a poll
\* tick remembers the raw text it found, so that a further tick finding the same
\* text does not decode: right after a tick of a unit, the test that guards the
\* decode (`newData !== lastData && newData`) is false for the stored text.
Decodes(U, newData) == newData # U.lastData /\ newData # NullItem

C29_PollDecodesOnlyOnDifference ==
    \A u \in Units :
        /\ unit[u].pollingInterval =>
              unit[u].channel = "null" /\ unit[u].storageListener
        /\ (last.op = "poll" /\ u \in last.us) =>
              ~Decodes(unit[u], storage[UKey(u)])

====
